---- MODULE Spec2Model ----
(***************************************************************************)
(* Model of src/src-tauri/python/src/__init__.py: the three module-level   *)
(* functions greet, sum and division, and the Python value semantics they  *)
(* rest on (str formatting, unbounded int addition, int / int true         *)
(* division producing an IEEE-754 binary64 float or raising).              *)
(***************************************************************************)
EXTENDS Integers, Sequences, FiniteSets

\* ------------------------------------------------------------------ bounds

\* Small integers offered as operands are -MaxAbs .. MaxAbs.
MaxAbs == 15
\* Names offered to greet are all texts over Alphabet up to this length.
MaxNameLen == 2
\* Number of concurrent callers in the interleaving specification.
NumCallers == 2

\* ------------------------------------------------- binary64 (Python float)

\* sys.float_info.mant_dig, max_exp, min_exp of the float that a / b returns.
MantDig == 53
MaxExp == 1024
MinExp == -1021
\* Exponent of the least significant bit of the smallest subnormal.
MinLsbExp == MinExp - MantDig

\* ---------------------------------------------------------- bit sequences
\* Naturals too wide for a machine word are sequences of bits, most
\* significant first.

Max(x, y) == IF x >= y THEN x ELSE y
Min(x, y) == IF x <= y THEN x ELSE y
Abs(x) == IF x < 0 THEN -x ELSE x

Zeros(k) == [i \in 1..k |-> 0]

\* Number of bits of a small natural n (0 for n = 0).
BitLen(n) == CHOOSE k \in 0..30 : n < 2^k /\ (k = 0 \/ n >= 2^(k - 1))

NatBits(n) == [i \in 1..BitLen(n) |-> (n \div 2^(BitLen(n) - i)) % 2]

IsZeroBits(bs) == \A i \in 1..Len(bs) : bs[i] = 0

\* bs without its leading zeros.
StripZeros(bs) ==
    IF IsZeroBits(bs) THEN << >>
    ELSE LET first == CHOOSE i \in 1..Len(bs) :
                          bs[i] = 1 /\ \A j \in 1..(i - 1) : bs[j] = 0
         IN  SubSeq(bs, first, Len(bs))

\* bs padded on the left with zeros to width w (w >= Len(bs)).
PadLeft(bs, w) == Zeros(w - Len(bs)) \o bs

\* 2^k mod d for a small d, without forming 2^k.
RECURSIVE PowMod2(_, _)
PowMod2(k, d) ==
    IF k <= 20 THEN 2^k % d
    ELSE ((2^20 % d) * PowMod2(k - 20, d)) % d

\* (n * 2^k) mod d for small n and d and any k >= -BitLen(n); a negative k
\* drops the low bits of n.
ShiftedMod(n, k, d) ==
    IF k < 0 THEN (n \div 2^(-k)) % d ELSE ((n % d) * PowMod2(k, d)) % d

\* Schoolbook long division of n * 2^ext by d, for small n and d: bit i of
\* the quotient comes from the remainder left by the bits before it.
DivShifted(n, ext, d) ==
    LET len == BitLen(n)
        w   == len + ext
        num == NatBits(n) \o Zeros(ext)
    IN  [q |-> [i \in 1..w |-> (2 * ShiftedMod(n, i - 1 - len, d) + num[i]) \div d],
         r |-> ShiftedMod(n, ext, d)]

\* x + y + cin for bit sequences of one width, at that width: the carry
\* into a bit is decided by the nearest lower bit where x and y agree.
AddCarry(x, y, cin) ==
    LET w == Len(x)
        carry(i) ==
            LET agree == {j \in (i + 1)..w : x[j] = y[j]}
            IN  IF agree = {} THEN cin
                ELSE x[CHOOSE j \in agree : \A l \in agree : j <= l]
    IN  [i \in 1..w |-> (x[i] + y[i] + carry(i)) % 2]

\* x + y, one bit wider than the wider of the two.
AddBits(x, y) ==
    LET w == Max(Len(x), Len(y)) + 1
    IN  AddCarry(PadLeft(x, w), PadLeft(y, w), 0)

\* bs + 1, one bit wider than bs.
IncBits(bs) == AddBits(bs, << 1 >>)

\* Round-half-to-even of the number bs / 2^drop (plus a nonzero fraction
\* below its last bit when sticky): the integer nearest to it.
RoundBits(bs, drop, sticky) ==
    LET w     == Max(Len(bs), drop) + 1
        full  == PadLeft(bs, w)
        kept  == SubSeq(full, 1, w - drop)
        guard == IF drop = 0 THEN 0 ELSE full[w - drop + 1]
        rest  == sticky \/ \E i \in (w - drop + 2)..w : full[i] = 1
        up    == guard = 1 /\ (rest \/ kept[Len(kept)] = 1)
    IN  IF up THEN IncBits(kept) ELSE kept

\* ------------------------------------------------------------ Python values

None == [kind |-> "None"]
Unset == [kind |-> "unset"]

\* A str: its characters in order.
Str(chars) == [kind |-> "str", v |-> chars]

\* An int (unbounded in Python) is n * 2^s with n odd, or n = 0 and s = 0.
RECURSIVE MkInt(_, _)
MkInt(n, s) ==
    IF n = 0 THEN [kind |-> "int", n |-> 0, s |-> 0]
    ELSE IF n % 2 = 0 THEN MkInt(n \div 2, s + 1)
    ELSE [kind |-> "int", n |-> n, s |-> s]

\* A finite float is (-1)^neg * m * 2^e, m a MantDig-bit sequence; normal
\* numbers have the top bit of m set, subnormals and zeros have e = MinLsbExp.
Float(neg, m, e) == [kind |-> "float", neg |-> neg, m |-> m, e |-> e]
FloatZero(neg) == Float(neg, Zeros(MantDig), MinLsbExp)

Returns(v) == [raised |-> FALSE, exc |-> "", v |-> v]
Raises(name) == [raised |-> TRUE, exc |-> name, v |-> Unset]

\* b == 0 on ints.
IntIsZero(b) == b.n = 0

\* a + b on ints: exact, of any magnitude.
IntAdd(a, b) ==
    IF a.n = 0 THEN b
    ELSE IF b.n = 0 THEN a
    ELSE LET lo == Min(a.s, b.s)
         IN  MkInt(a.n * 2^(a.s - lo) + b.n * 2^(b.s - lo), lo)

\* floor(log2(x / y)) for small positive x, y.
FloorLog2Ratio(x, y) ==
    LET l == BitLen(x) - BitLen(y)
    IN  IF x * 2^Max(-l, 0) >= y * 2^Max(l, 0) THEN l ELSE l - 1

\* a / b on ints (true division): the float nearest the exact quotient,
\* ties to even, gradual underflow; ZeroDivisionError for b = 0 and
\* OverflowError when the rounded quotient is not below 2^MaxExp.
TrueDiv(a, b) ==
    IF b.n = 0 THEN Raises("ZeroDivisionError")
    ELSE IF a.n = 0 THEN Returns(FloatZero(b.n < 0))
    ELSE LET na   == Abs(a.n)
             nb   == Abs(b.n)
             d    == a.s - b.s
             top  == FloorLog2Ratio(na, nb) + d
             e    == Max(top - (MantDig - 1), MinLsbExp)
             t    == d - e
             ext  == Max(t + 1, 0)
             qr   == DivShifted(na, ext, nb)
             m0   == StripZeros(RoundBits(qr.q, ext - t, qr.r > 0))
             over == Len(m0) > MantDig
             m    == IF over THEN SubSeq(m0, 1, MantDig) ELSE PadLeft(m0, MantDig)
             ee   == IF over THEN e + 1 ELSE e
         IN  IF top >= MaxExp \/ (m[1] = 1 /\ ee + MantDig - 1 >= MaxExp)
             THEN Raises("OverflowError")
             ELSE Returns(Float((a.n < 0) # (b.n < 0), m, ee))

\* ------------------------------------------------------------ the functions

\* The literal parts of the f-string of greet, before and after {name}.
GreetPrefix ==
    << "H", "e", "l", "l", "o", ",", " " >>
GreetSuffix ==
    << "!", " ", "Y", "o", "u", " ", "h", "a", "v", "e", " ", "b",
       "e", "e", "n", " ", "g", "r", "e", "e", "t", "e", "d", " ",
       "f", "r", "o", "m", " ", "P", "y", "t", "h", "o", "n", "!" >>

\* {name} in an f-string with no conversion and no format spec: format(name, ""),
\* which for a str is its own characters.
FormatField(v) == v.v

\* name.strip(): without its leading and trailing spaces.
StripSpaces(t) ==
    LET solid == {i \in 1..Len(t) : t[i] # " "}
    IN  IF solid = {} THEN << >>
        ELSE SubSeq(t, CHOOSE i \in solid : \A j \in solid : i <= j,
                       CHOOSE i \in solid : \A j \in solid : i >= j)

\* greet with the name stripped of surrounding spaces before formatting.
greetStripped(name) ==
    Str(GreetPrefix \o StripSpaces(FormatField(name)) \o GreetSuffix)

\* greet with the f prefix of the string literal forgotten.
greetLiteral(name) ==
    Str(GreetPrefix \o << "{", "n", "a", "m", "e", "}" >> \o GreetSuffix)

\* def greet(name): return f"Hello, {name}! You have been greeted from Python!"
greet(name) == Str(GreetPrefix \o FormatField(name) \o GreetSuffix)

\* sum written a - b.
sumMinus(a, b) == IntAdd(a, MkInt(-b.n, b.s))

\* sum written a + a + b.
sumTwice(a, b) == IntAdd(IntAdd(a, a), b)

\* def sum(a, b): return a + b
sum(a, b) == IntAdd(a, b)

\* ------------------------------------------------------------------ inputs

Alphabet == {"A", "!", " "}
Texts == UNION {[1..k -> Alphabet] : k \in 0..MaxNameLen}

\* Names offered to greet: every short text over the alphabet, and the
\* template's own parts.
Names ==
    {Str(t) : t \in Texts}
        \cup {Str(GreetPrefix), Str(GreetSuffix), Str(GreetPrefix \o GreetSuffix)}

SmallInts == {MkInt(n, 0) : n \in (-MaxAbs)..MaxAbs}
\* Integers beyond the range of a float, and at its edge.
BigInts == {MkInt(n, s) : n \in {-3, -1, 1, 3}, s \in {MaxExp - 1, MaxExp, 1 - MinLsbExp}}
Operands == SmallInts \cup BigInts

\* Pairs whose sum has a short odd part, so that n * 2^s holds it.
Addable(a, b) == a.n = 0 \/ b.n = 0 \/ Abs(a.s - b.s) <= 8
SumPairs == {p \in Operands \X Operands : Addable(p[1], p[2])}
DivisionPairs == Operands \X Operands

\* The inputs of the interleaving specification: a few calls of each function,
\* among them a zero divisor, a zero dividend and a quotient no float holds.
FewNames == {Str(<< >>), Str(<< " ", "A" >>), Str(<< "A" >>)}
FewSumPairs ==
    { << MkInt(-1, 0), MkInt(3, 0) >>,
      << MkInt(3, 0), MkInt(-1, 0) >>,
      << MkInt(3, 0), MkInt(3, 0) >> }
FewDivisionPairs ==
    { << MkInt(3, 0), MkInt(0, 0) >>,
      << MkInt(0, 0), MkInt(3, 0) >>,
      << MkInt(3, 0), MkInt(-1, 0) >>,
      << MkInt(1, MaxExp), MkInt(3, 0) >> }

\* ------------------------------------------------------------------- state

Callers == 1..NumCallers
\* The caller of the sequential specification.
MainCallers == {1}

VARIABLES
    pc,     \* per caller: "idle", the source line it is about to run, or how its call ended
    fn,     \* per caller: the function of its current or last call
    args,   \* per caller: the arguments bound to the parameters
    ret,    \* per caller: the value returned
    exc,    \* per caller: the exception raised
    seen    \* an earlier completed call, kept by the observer

vars == << pc, fn, args, ret, exc, seen >>

NoCall == [fn |-> "none", args |-> << >>, pc |-> "idle", ret |-> Unset, exc |-> ""]

Init ==
    /\ pc = [c \in Callers |-> "idle"]
    /\ fn = [c \in Callers |-> "none"]
    /\ args = [c \in Callers |-> << >>]
    /\ ret = [c \in Callers |-> Unset]
    /\ exc = [c \in Callers |-> ""]
    /\ seen = NoCall

Done(c) == pc[c] \in {"returned", "raised"}

\* A call binds the arguments to the parameters of a fresh frame.
Enter(c, f, line, actuals) ==
    /\ pc' = [pc EXCEPT ![c] = line]
    /\ fn' = [fn EXCEPT ![c] = f]
    /\ args' = [args EXCEPT ![c] = actuals]
    /\ ret' = [ret EXCEPT ![c] = Unset]
    /\ exc' = [exc EXCEPT ![c] = ""]
    /\ UNCHANGED seen

\* return v
Return(c, v) ==
    /\ pc' = [pc EXCEPT ![c] = "returned"]
    /\ ret' = [ret EXCEPT ![c] = v]
    /\ UNCHANGED << fn, args, exc, seen >>

\* An exception leaves the function, which has no handler.
Raise(c, name) ==
    /\ pc' = [pc EXCEPT ![c] = "raised"]
    /\ exc' = [exc EXCEPT ![c] = name]
    /\ UNCHANGED << fn, args, ret, seen >>

CallGreet(c, names) ==
    /\ pc[c] = "idle"
    /\ \E name \in names : Enter(c, "greet", "greet:4", << name >>)

\* line 4
GreetBody(c) ==
    /\ pc[c] = "greet:4"
    /\ Return(c, greet(args[c][1]))

CallSum(c, pairs) ==
    /\ pc[c] = "idle"
    /\ \E p \in pairs : Enter(c, "sum", "sum:7", p)

\* sum with its operands kept in module globals: the body reads what the
\* latest caller to enter wrote.
SumBodyShared(c) ==
    /\ pc[c] = "sum:7"
    /\ LET w == CHOOSE d \in Callers :
                    /\ pc[d] = "sum:7"
                    /\ \A o \in Callers : pc[o] = "sum:7" => o <= d
       IN  Return(c, sum(args[w][1], args[w][2]))

\* line 7
SumBody(c) ==
    /\ pc[c] = "sum:7"
    /\ Return(c, sum(args[c][1], args[c][2]))

CallDivision(c, pairs) ==
    /\ pc[c] = "idle"
    /\ \E p \in pairs : Enter(c, "division", "division:11", p)

\* line 11 testing the dividend: if a == 0:
DivisionTestDividend(c) ==
    /\ pc[c] = "division:11"
    /\ pc' = [pc EXCEPT ![c] = IF IntIsZero(args[c][1]) THEN "division:12"
                                                         ELSE "division:13"]
    /\ UNCHANGED << fn, args, ret, exc, seen >>

\* line 11: if b == 0:
DivisionTest(c) ==
    /\ pc[c] = "division:11"
    /\ pc' = [pc EXCEPT ![c] = IF IntIsZero(args[c][2]) THEN "division:12"
                                                         ELSE "division:13"]
    /\ UNCHANGED << fn, args, ret, exc, seen >>

\* line 12: return None
DivisionReturnNone(c) ==
    /\ pc[c] = "division:12"
    /\ Return(c, None)

\* line 13 with the operands swapped: return b / a
DivisionReturnQuotientSwapped(c) ==
    /\ pc[c] = "division:13"
    /\ LET q == TrueDiv(args[c][2], args[c][1])
       IN  IF q.raised THEN Raise(c, q.exc) ELSE Return(c, q.v)

\* line 13 written return a / b or None: a zero quotient is falsy.
DivisionReturnQuotientOrNone(c) ==
    /\ pc[c] = "division:13"
    /\ LET q == TrueDiv(args[c][1], args[c][2])
       IN  IF q.raised THEN Raise(c, q.exc)
           ELSE Return(c, IF IsZeroBits(q.v.m) THEN None ELSE q.v)

\* line 13: return a / b
DivisionReturnQuotient(c) ==
    /\ pc[c] = "division:13"
    /\ LET q == TrueDiv(args[c][1], args[c][2])
       IN  IF q.raised THEN Raise(c, q.exc) ELSE Return(c, q.v)

\* The caller takes the outcome and is free to call again.
Finish(c) ==
    /\ Done(c)
    /\ pc' = [pc EXCEPT ![c] = "idle"]
    /\ fn' = [fn EXCEPT ![c] = "none"]
    /\ args' = [args EXCEPT ![c] = << >>]
    /\ ret' = [ret EXCEPT ![c] = Unset]
    /\ exc' = [exc EXCEPT ![c] = ""]
    /\ UNCHANGED seen

\* The observer keeps one completed call to compare later calls with.
Observe(c) ==
    /\ Done(c)
    /\ seen = NoCall
    /\ seen' = [fn |-> fn[c], args |-> args[c], pc |-> pc[c], ret |-> ret[c], exc |-> exc[c]]
    /\ UNCHANGED << pc, fn, args, ret, exc >>

\* Sequential use: one caller, one call at a time, the wide inputs.
Next ==
    \E c \in MainCallers :
        \/ CallGreet(c, Names)
        \/ GreetBody(c)
        \/ CallSum(c, SumPairs)
        \/ SumBody(c)
        \/ CallDivision(c, DivisionPairs)
        \/ DivisionTest(c)
        \/ DivisionReturnNone(c)
        \/ DivisionReturnQuotient(c)
        \/ Finish(c)

Spec == Init /\ [][Next]_vars

\* Interleaved use: several callers stepping in any order, and an observer.
NextInterleaved ==
    \E c \in Callers :
        \/ CallGreet(c, FewNames)
        \/ GreetBody(c)
        \/ CallSum(c, FewSumPairs)
        \/ SumBody(c)
        \/ CallDivision(c, FewDivisionPairs)
        \/ DivisionTest(c)
        \/ DivisionReturnNone(c)
        \/ DivisionReturnQuotient(c)
        \/ Finish(c)
        \/ Observe(c)

SpecInterleaved == Init /\ [][NextInterleaved]_vars

\* ---------------------------------------------------- what the claims use

CallOf(c) == [fn |-> fn[c], args |-> args[c], pc |-> pc[c], ret |-> ret[c], exc |-> exc[c]]
Completed(c, f) == Done(c) /\ fn[c] = f
Running(c) == pc[c] \notin {"idle", "returned", "raised"}

\* Exact arithmetic on bit sequences, for stating what a result must be.

\* x - y for x >= y, at the width of the wider (two's complement).
SubBits(x, y) ==
    LET w    == Max(Len(x), Len(y))
        yy   == PadLeft(y, w)
        notY == [i \in 1..w |-> 1 - yy[i]]
    IN  AddCarry(PadLeft(x, w), notY, 1)

\* bs * k for a small natural k (shift and add over the bits of k).
RECURSIVE MulBits(_, _)
MulBits(bs, k) ==
    IF k = 0 THEN << >>
    ELSE AddBits(IF k % 2 = 1 THEN bs ELSE << >>,
                 Append(MulBits(bs, k \div 2), 0))

\* Comparison of two bit sequences as numbers: -1, 0 or 1.
CmpBits(x, y) ==
    LET w    == Max(Len(x), Len(y))
        xx   == PadLeft(x, w)
        yy   == PadLeft(y, w)
        diff == {i \in 1..w : xx[i] # yy[i]}
    IN  IF diff = {} THEN 0
        ELSE LET first == CHOOSE i \in diff : \A j \in diff : i <= j
             IN  IF xx[first] > yy[first] THEN 1 ELSE -1

\* |x - y|
DistBits(x, y) == IF CmpBits(x, y) >= 0 THEN SubBits(x, y) ELSE SubBits(y, x)

\* Number of trailing zero bits of a nonzero bit sequence.
TrailingZeros(bs) ==
    LET last == CHOOSE i \in 1..Len(bs) :
                    bs[i] = 1 /\ \A j \in (i + 1)..Len(bs) : bs[j] = 0
    IN  Len(bs) - last

\* The Python expression q * b == a for a float q and ints b, a: b is
\* converted to a float (OverflowError when it has none), the product is
\* rounded to a float, and the comparison with the int a is exact.
ProductEquals(q, b, a) ==
    LET nb == Abs(b.n)
    IN  IF BitLen(nb) + b.s > MaxExp THEN FALSE
        ELSE IF IsZeroBits(q.m) \/ nb = 0 THEN a.n = 0
        ELSE LET p    == StripZeros(MulBits(q.m, nb))
                 drop == Max(Len(p) - MantDig, 0)
                 r    == StripZeros(RoundBits(p, drop, FALSE))
                 tz   == TrailingZeros(r)
             IN  /\ Len(r) + q.e + b.s + drop <= MaxExp
                 /\ a.n # 0
                 /\ (q.neg # (b.n < 0)) = (a.n < 0)
                 /\ q.e + b.s + drop + tz = a.s
                 /\ CmpBits(SubSeq(r, 1, Len(r) - tz), NatBits(Abs(a.n))) = 0

\* q is the float nearest to the exact a / b, ties to even, in exact
\* arithmetic: with q = m * 2^e, |a - m * 2^e * b| <= 2^(e-1) * |b|, and half
\* of that where q is a power of two approached from below.
Nearest(q, a, b) ==
    IF a.n = 0 THEN q = FloatZero(b.n < 0)
    ELSE LET na   == Abs(a.n)
             nb   == Abs(b.n)
             t    == a.s - b.s - q.e
             up   == Max(t, 0)
             down == Max(-t, 0)
             x    == NatBits(na) \o Zeros(up + 1)
             y    == MulBits(q.m, nb) \o Zeros(down + 1)
             half == NatBits(nb) \o Zeros(down)
             dist == DistBits(x, y)
             cmp  == CmpBits(dist, half)
             pow2 == q.m[1] = 1 /\ \A i \in 2..MantDig : q.m[i] = 0
         IN  /\ Len(q.m) = MantDig
             /\ q.neg = ((a.n < 0) # (b.n < 0))
             /\ q.e >= MinLsbExp
             /\ q.m[1] = 1 \/ q.e = MinLsbExp
             /\ q.e + MantDig <= MaxExp
             /\ cmp < 0 \/ (cmp = 0 /\ q.m[MantDig] = 0)
             /\ (pow2 /\ q.e > MinLsbExp /\ CmpBits(x, y) < 0)
                    => CmpBits(Append(dist, 0), half) <= 0

\* |a / b| >= 2^MaxExp - 2^(MaxExp - MantDig - 1): the exact quotient rounds
\* to a magnitude no float has.
QuotientTooLarge(a, b) ==
    LET sh == a.s - b.s - (MaxExp - MantDig - 1)
        x  == NatBits(Abs(a.n)) \o Zeros(Max(sh, 0))
        y  == MulBits([i \in 1..(MantDig + 1) |-> 1], Abs(b.n)) \o Zeros(Max(-sh, 0))
    IN  a.n # 0 /\ CmpBits(x, y) >= 0

\* r is the int a + b, checked on the operands scaled to their common shift.
IsSumOf(r, a, b) ==
    LET lo    == IF a.n = 0 THEN b.s ELSE IF b.n = 0 THEN a.s ELSE Min(a.s, b.s)
        scale(x) == IF x.n = 0 THEN 0 ELSE x.n * 2^(x.s - lo)
        total == scale(a) + scale(b)
    IN  /\ r.kind = "int"
        /\ IF total = 0 THEN r.n = 0 /\ r.s = 0
           ELSE r.n % 2 = 1 /\ r.s >= lo /\ r.n * 2^(r.s - lo) = total

\* ------------------------------------------------------------------ claims

\* C1: every completed call division(a, 0) has returned None; none has
\* raised.
C1_ZeroDivisorReturnsNone ==
    \A c \in Callers :
        (Completed(c, "division") /\ IntIsZero(args[c][2]))
            => (pc[c] = "returned" /\ ret[c] = None /\ exc[c] = "")

\* A call division(a, 0) with a nonzero dividend has returned None.
C1_Witness ==
    \E c \in Callers :
        /\ Completed(c, "division")
        /\ IntIsZero(args[c][2]) /\ ~IntIsZero(args[c][1])
        /\ ret[c] = None

\* C2 as stated: every completed call division(a, b) with b != 0 has
\* returned a float q, not None, for which q * b == a.
C2_QuotientTimesDivisorIsDividend ==
    \A c \in Callers :
        (Completed(c, "division") /\ ~IntIsZero(args[c][2]))
            => /\ pc[c] = "returned"
               /\ ret[c].kind = "float"
               /\ ProductEquals(ret[c], args[c][2], args[c][1])

\* C2 amended: every completed call division(a, b) with b != 0 has either
\* returned the float nearest to the exact quotient a / b (ties to even),
\* never None, or raised OverflowError, the latter exactly when the
\* quotient rounds to a magnitude of 2^1024 or more.
C2_QuotientIsNearestFloat ==
    \A c \in Callers :
        (Completed(c, "division") /\ ~IntIsZero(args[c][2]))
            => /\ ret[c] # None
               /\ (pc[c] = "raised") = QuotientTooLarge(args[c][1], args[c][2])
               /\ pc[c] = "raised" => exc[c] = "OverflowError"
               /\ pc[c] = "returned"
                    => /\ ret[c].kind = "float"
                       /\ Nearest(ret[c], args[c][1], args[c][2])

\* A call division(a, b) on small integers, b != 0, has returned a float q
\* that is not the exact quotient: q * b == a is false.
C2_Witness ==
    \E c \in Callers :
        /\ Completed(c, "division") /\ pc[c] = "returned"
        /\ ~IntIsZero(args[c][2])
        /\ args[c][1].s = 0 /\ args[c][2].s = 0
        /\ args[c][1].n % 2 = 1 /\ args[c][2].n % 2 = 1
        /\ ret[c].kind = "float"
        /\ ~ProductEquals(ret[c], args[c][2], args[c][1])

\* C3: every completed call sum(a, b) has returned the int a + b; none has
\* raised.
C3_SumIsExact ==
    \A c \in Callers :
        Completed(c, "sum")
            => /\ pc[c] = "returned" /\ exc[c] = ""
               /\ IsSumOf(ret[c], args[c][1], args[c][2])

\* A call of sum on two unequal operands beyond the range of a float has
\* returned.
C3_Witness ==
    \E c \in Callers :
        /\ Completed(c, "sum") /\ pc[c] = "returned"
        /\ args[c][1].s >= MaxExp /\ args[c][2].s >= MaxExp
        /\ args[c][1] # args[c][2]
        /\ ret[c].n # 0

\* C4: a completed call sum(a, b) and a completed call sum(b, a), whether
\* one after the other or side by side, have returned equal values.
C4_SumCommutes ==
    \A c \in Callers :
        Completed(c, "sum")
            => /\ (seen.fn = "sum" /\ seen.args = << args[c][2], args[c][1] >>)
                    => (seen.pc = "returned" /\ pc[c] = "returned" /\ seen.ret = ret[c])
               /\ \A d \in Callers :
                    (Completed(d, "sum") /\ args[d] = << args[c][2], args[c][1] >>)
                        => (pc[d] = "returned" /\ pc[c] = "returned" /\ ret[d] = ret[c])

\* sum(a, b) was observed, and later sum(b, a) with a # b has returned.
C4_Witness ==
    \E c \in Callers :
        /\ Completed(c, "sum")
        /\ seen.fn = "sum" /\ seen.args = << args[c][2], args[c][1] >>
        /\ args[c][1] # args[c][2]
        /\ seen.ret = ret[c]

\* The text of the template before and after the name.
TemplateHead == << "H", "e", "l", "l", "o", ",", " " >>
TemplateTail ==
    << "!", " ", "Y", "o", "u", " ", "h", "a", "v", "e", " ",
       "b", "e", "e", "n", " ", "g", "r", "e", "e", "t", "e", "d", " ",
       "f", "r", "o", "m", " ", "P", "y", "t", "h", "o", "n", "!" >>

\* C5: every completed call greet(s) has returned the str made of
\* "Hello, ", then s verbatim, then "! You have been greeted from Python!";
\* none has raised.
C5_GreetFollowsTemplate ==
    \A c \in Callers :
        Completed(c, "greet")
            => LET s == args[c][1].v
                   g == ret[c].v
                   h == Len(TemplateHead)
               IN  /\ pc[c] = "returned" /\ exc[c] = ""
                   /\ ret[c].kind = "str"
                   /\ Len(g) = h + Len(s) + Len(TemplateTail)
                   /\ SubSeq(g, 1, h) = TemplateHead
                   /\ SubSeq(g, h + 1, h + Len(s)) = s
                   /\ SubSeq(g, h + Len(s) + 1, Len(g)) = TemplateTail

\* greet has returned for a name that is itself the template's suffix, with
\* its punctuation and words.
C5_Witness ==
    \E c \in Callers :
        /\ Completed(c, "greet") /\ pc[c] = "returned"
        /\ args[c][1].v = TemplateTail
        /\ Len(ret[c].v) = Len(TemplateHead) + 2 * Len(TemplateTail)

\* C6: a completed call has the outcome of every other completed call of
\* the same function on equal arguments, be it an earlier one or one
\* running side by side, whatever other calls ran in between.
C6_OutcomeDependsOnArgumentsOnly ==
    \A c \in Callers :
        Done(c)
            => /\ (seen.fn = fn[c] /\ seen.args = args[c]) => seen = CallOf(c)
               /\ \A d \in Callers :
                    (Done(d) /\ fn[d] = fn[c] /\ args[d] = args[c])
                        => CallOf(d) = CallOf(c)

\* A call was observed, the same call was made again and completed while
\* another caller was inside a function.
C6_Witness ==
    \E c \in Callers : \E d \in Callers \ {c} :
        /\ Done(c) /\ fn[c] = "division"
        /\ seen.fn = fn[c] /\ seen.args = args[c] /\ seen = CallOf(c)
        /\ Running(d)

\* C7: a completed call division(a, b) has returned None exactly when
\* b = 0, and division(0, b) with b != 0 has returned a float zero, which is
\* not None.
C7_NoneOnlyForZeroDivisor ==
    \A c \in Callers :
        Completed(c, "division")
            => /\ (pc[c] = "returned" /\ ret[c] = None) = IntIsZero(args[c][2])
               /\ (IntIsZero(args[c][1]) /\ ~IntIsZero(args[c][2]))
                    => /\ pc[c] = "returned"
                       /\ ret[c].kind = "float"
                       /\ IsZeroBits(ret[c].m)
                       /\ ret[c] # None

\* division(0, b) with b != 0 has returned a zero.
C7_Witness ==
    \E c \in Callers :
        /\ Completed(c, "division") /\ pc[c] = "returned"
        /\ IntIsZero(args[c][1]) /\ ~IntIsZero(args[c][2])
        /\ ret[c].kind = "float" /\ IsZeroBits(ret[c].m)

\* C8: no call of division ends in a fault, whatever the magnitude and sign
\* of its arguments.
C8_DivisionNeverRaises ==
    \A c \in Callers : fn[c] = "division" => pc[c] # "raised"

\* C9: two completed calls of greet that returned equal greetings were
\* given equal names, and the name is the greeting without its first 7 and
\* last 36 characters.
C9_GreetIsInjective ==
    \A c \in Callers :
        Completed(c, "greet")
            => /\ (seen.fn = "greet" /\ seen.ret = ret[c]) => seen.args = args[c]
               /\ \A d \in Callers :
                    (Completed(d, "greet") /\ ret[d] = ret[c]) => args[d] = args[c]
               /\ SubSeq(ret[c].v, Len(TemplateHead) + 1,
                         Len(ret[c].v) - Len(TemplateTail)) = args[c][1].v

\* Two calls of greet on different names, one observed and one completed
\* later, returned different greetings.
C9_Witness ==
    \E c \in Callers :
        /\ Completed(c, "greet")
        /\ seen.fn = "greet" /\ seen.args # args[c]
        /\ seen.ret # ret[c]

====
